---- MODULE Spec2Model ----
(* Points aggregation, optimal-lineup solver and league ranking of           *)
(* calculate_points.py, and the notification loop of send_updates.py, as a   *)
(* state machine over the files they read and write.                         *)
EXTENDS Integers, Sequences, FiniteSets, TLC

(* ------------------------------------------------------------------------ *)
(* Bounds of the model                                                      *)
(* ------------------------------------------------------------------------ *)
NumTeams == 2
MaxGw == 2
MaxCalls == 2
MaxKeepers == 2
MaxDefenders == 5
MaxMidfielders == 5
MaxForwards == 3
MaxPermuted == 3
MaxRuns == 2

(* ------------------------------------------------------------------------ *)
(* Files                                                                    *)
(* ------------------------------------------------------------------------ *)
NoFile == [kind |-> "missing"]
Corrupt == [kind |-> "truncated"]
File(d) == [kind |-> "json", data |-> d]
Unread == [kind |-> "unread"]
\* a roster that was loaded by a build whose write failed: it goes with the
\* call's locals, nothing on disk was computed from it
Discarded == [kind |-> "discarded"]

IsJson(f) == f.kind = "json"

(* ------------------------------------------------------------------------ *)
(* Inputs: league entries, player directory, rosters, score index           *)
(* ------------------------------------------------------------------------ *)
Gws == 1..MaxGw

\* get_team_ids: the keys of league_entries, in file order
team_ids == [i \in 1..NumTeams |-> NumTeams + 1 - i]

TeamIdSet == {team_ids[i] : i \in 1..NumTeams}

get_current_gw == MaxGw

\* bootstrap_players[id].element_type: 1 GK, 2 DEF, 3 MID, 4 FWD; players 17
\* and 18 carry the unrecognised codes 0 and 5, player 19 is not listed
bootstrap_players ==
  [p \in 1..18 |-> IF p <= 2 THEN 1
                   ELSE IF p <= 7 THEN 2
                   ELSE IF p <= 12 THEN 3
                   ELSE IF p <= 15 THEN 4
                   ELSE IF p = 16 THEN 3
                   ELSE IF p = 17 THEN 0
                   ELSE 5]

\* team_data['picks']: squad position i holds player ids[i]
Picks(ids) == [i \in 1..Len(ids) |-> [element |-> ids[i], position |-> i]]

Roster442 == Picks(<<1, 3, 4, 5, 6, 8, 9, 10, 11, 13, 14, 2, 7, 12, 15>>)
Roster352 == Picks(<<1, 3, 4, 5, 8, 9, 10, 11, 12, 13, 14, 2, 6, 7, 15>>)
\* two goalkeepers among the starters, player 16 in for player 11
RosterTwoGK == Picks(<<1, 2, 3, 4, 5, 8, 9, 10, 16, 13, 14, 6, 7, 12, 15>>)

Rosters == <<Roster442, Roster352, RosterTwoGK>>

\* rosters the provider would not hand out: ten picks only; a starter and a
\* bench player of category code 0; a starter and a bench player of category
\* code 5; a player the directory does not list
RosterTenPicks == Picks(<<1, 3, 4, 5, 6, 8, 9, 10, 11, 13>>)
RosterStarterCode0 == Picks(<<1, 3, 4, 5, 6, 8, 9, 10, 11, 13, 17, 2, 7, 12, 15>>)
RosterBenchCode0 == Picks(<<1, 3, 4, 5, 6, 8, 9, 10, 11, 13, 14, 2, 7, 12, 17>>)
RosterStarterCode5 == Picks(<<1, 3, 4, 5, 6, 8, 9, 10, 11, 13, 18, 2, 7, 12, 15>>)
RosterBenchCode5 == Picks(<<1, 3, 4, 5, 6, 8, 9, 10, 11, 13, 14, 2, 7, 12, 18>>)
RosterUnlisted == Picks(<<1, 3, 4, 5, 6, 8, 9, 10, 11, 13, 14, 2, 7, 12, 19>>)

MalformedRosters ==
  {RosterTenPicks, RosterStarterCode0, RosterBenchCode0, RosterStarterCode5,
   RosterBenchCode5, RosterUnlisted}

\* the rosters a team's gw_{gw}_complete.json may hold
RosterChoices(team_id) ==
  {Rosters[(team_id % Len(Rosters)) + 1], Rosters[((team_id + 1) % Len(Rosters)) + 1]}

\* gw_data_cache[gw]['elements']: player id -> total_points; a player who did
\* not feature has no entry
ScoresExample ==
  [p \in 1..16 |-> <<4, 0, 8, 6, 5, 3, 2, 10, 9, 7, 4, 1, 12, 6, 3, 2>>[p]]
ScoresNegative ==
  [p \in 1..16 |-> IF p % 2 = 0 THEN -1 ELSE -2]
ScoresKeeper ==
  [p \in {1, 2, 3, 4, 5, 6, 8, 9, 10, 11, 13, 14, 16} |->
     IF p = 2 THEN 9 ELSE IF p = 1 THEN 7 ELSE IF p = 6 THEN 5
     ELSE IF p = 11 THEN 4 ELSE IF p = 16 THEN 3 ELSE p % 3]
ScoresMixed ==
  [p \in {1, 3, 5, 6, 7, 9, 11, 12, 13, 15} |->
     IF p % 3 = 0 THEN 3 ELSE IF p % 3 = 1 THEN -2 ELSE 0]

ScoreTables == <<ScoresExample, ScoresNegative, ScoresKeeper, ScoresMixed>>

(* ------------------------------------------------------------------------ *)
(* State                                                                    *)
(* ------------------------------------------------------------------------ *)
VARIABLES
  gw_data_cache,   \* gw -> score index of the gameweek
  team_data,       \* <<team, gw>> -> roster loaded by the last build of the key
  gw_adjusted,     \* <<team, gw>> -> the gw_{gw}_adjusted.json file
  pc,              \* where the run is
  gw,              \* loop variable of main
  ti,              \* index into team_ids of main's inner loop
  ncalls,          \* number of calls made so far
  last,            \* the last call and how it ended
  pool,            \* the player_stats handed to the solver on its own
  solved,          \* what the solver returned for pool
  pending,         \* team -> what a build in progress has read so far
  sent_file,       \* the sent_updates.json file
  sent_updates,    \* webhook type -> the list of send_updates, in memory
  delivered,       \* webhook type -> gw -> deliveries Discord has accepted
  attempted,       \* webhook type -> gameweeks handed to the webhook this run
  wh,              \* index of the block of send_updates the run is in
  runs             \* runs of send_updates started so far

\* the state of send_updates
updates_vars == <<sent_file, sent_updates, delivered, attempted, wh, runs>>

vars == <<gw_data_cache, team_data, gw_adjusted, pc, gw, ti, ncalls, last,
          pool, solved, pending, updates_vars>>

Keys == TeamIdSet \X Gws

(* ------------------------------------------------------------------------ *)
(* Sorting: Python's sorted(..., reverse=True) is stable                    *)
(* ------------------------------------------------------------------------ *)
RECURSIVE InsertDesc(_, _)
InsertDesc(sorted, x) ==
  IF sorted = <<>> THEN <<x>>
  ELSE IF Head(sorted).key >= x.key
       THEN <<Head(sorted)>> \o InsertDesc(Tail(sorted), x)
       ELSE <<x>> \o sorted

RECURSIVE SortedDesc(_)
SortedDesc(s) ==
  IF s = <<>> THEN <<>>
  ELSE InsertDesc(SortedDesc(SubSeq(s, 1, Len(s) - 1)), s[Len(s)])

RECURSIVE SumPoints(_)
SumPoints(s) == IF s = <<>> THEN 0 ELSE Head(s).points + SumPoints(Tail(s))

Min(a, b) == IF a <= b THEN a ELSE b

\* lst[idx] on a Python list of length n: the 1-based place it denotes
\* (a negative idx counts from the end), 0 when it raises IndexError
ListIndex(idx, n) ==
  IF idx >= 0 /\ idx < n THEN idx + 1
  ELSE IF idx < 0 /\ idx >= 0 - n THEN idx + n + 1
  ELSE 0

(* ------------------------------------------------------------------------ *)
(* calculate_optimal_points                                                 *)
(* ------------------------------------------------------------------------ *)
\* mutant: 4-2-4 listed in place of 5-2-3
formations_with_424 ==
  << <<1, 3, 5, 2>>, <<1, 3, 4, 3>>, <<1, 4, 5, 1>>, <<1, 4, 4, 2>>,
     <<1, 4, 3, 3>>, <<1, 5, 4, 1>>, <<1, 5, 3, 2>>, <<1, 4, 2, 4>> >>

formations ==
  << <<1, 3, 5, 2>>, <<1, 3, 4, 3>>, <<1, 4, 5, 1>>, <<1, 4, 4, 2>>,
     <<1, 4, 3, 3>>, <<1, 5, 4, 1>>, <<1, 5, 3, 2>>, <<1, 5, 2, 3>> >>

\* mutant: the bucket sorted with reverse=False
SquadBucketAscending(player_stats, pos) ==
  LET bucket == SelectSeq(player_stats,
                          LAMBDA p : ListIndex(p.true_position - 1, 4) = pos)
      keyed == [i \in 1..Len(bucket) |-> [key |-> 0 - bucket[i].points, val |-> bucket[i]]]
      srt == SortedDesc(keyed)
  IN [i \in 1..Len(srt) |-> srt[i].val]

\* mutant: the buckets are left in input order
SquadBucketUnsorted(player_stats, pos) ==
  SelectSeq(player_stats, LAMBDA p : ListIndex(p.true_position - 1, 4) = pos)

\* squad[pos], sorted by points descending; squad[true_position - 1] is
\* the bucket a player was appended to
SquadBucket(player_stats, pos) ==
  LET bucket == SelectSeq(player_stats,
                          LAMBDA p : ListIndex(p.true_position - 1, 4) = pos)
      keyed == [i \in 1..Len(bucket) |-> [key |-> bucket[i].points, val |-> bucket[i]]]
      srt == SortedDesc(keyed)
  IN [i \in 1..Len(srt) |-> srt[i].val]

\* squad[pos][:k]
Slice(s, k) == SubSeq(s, 1, Min(k, Len(s)))

FormationPoints(player_stats, formation) ==
  LET RECURSIVE Acc(_)
      Acc(pos) == IF pos > 4 THEN 0
                  ELSE SumPoints(Slice(SquadBucket(player_stats, pos), formation[pos]))
                       + Acc(pos + 1)
  IN Acc(1)

InitialOptimal == 0

BetterFormation(formation_points, optimal_points) == formation_points > optimal_points

\* mutant: the running maximum starts from the first formation's sum
calculate_optimal_points_from_first(player_stats) ==
  LET RECURSIVE Loop(_, _)
      Loop(i, optimal_points) ==
        IF i > Len(formations) THEN optimal_points
        ELSE LET formation_points == FormationPoints(player_stats, formations[i])
             IN Loop(i + 1, IF BetterFormation(formation_points, optimal_points)
                            THEN formation_points ELSE optimal_points)
  IN Loop(2, FormationPoints(player_stats, formations[1]))

calculate_optimal_points(player_stats) ==
  LET RECURSIVE Loop(_, _)
      Loop(i, optimal_points) ==
        IF i > Len(formations) THEN optimal_points
        ELSE LET formation_points == FormationPoints(player_stats, formations[i])
             IN Loop(i + 1, IF BetterFormation(formation_points, optimal_points)
                            THEN formation_points ELSE optimal_points)
  IN Loop(1, InitialOptimal)

(* ------------------------------------------------------------------------ *)
(* calculate_gw_stats                                                       *)
(* ------------------------------------------------------------------------ *)
StarterLimit == 11

\* mutant: a player without an entry is given -1
PlayerPointsAbsentPenalty(scores, element_id) ==
  IF element_id \in DOMAIN scores THEN scores[element_id] ELSE 0 - 1

\* gw_data_cache[gw]['elements'] lookup, 0 when the player has no entry
PlayerPoints(scores, element_id) ==
  IF element_id \in DOMAIN scores THEN scores[element_id] ELSE 0

\* mutant: position < 11
IsStarterBelow(player) == player.position < StarterLimit

IsStarter(player) == player.position <= StarterLimit

\* index of the entry of element_id in total_player_stats, 0 if none
RECURSIVE StatsIndex(_, _, _)
StatsIndex(stats, element_id, i) ==
  IF i > Len(stats) THEN 0
  ELSE IF stats[i].id = element_id THEN i
  ELSE StatsIndex(stats, element_id, i + 1)

\* total_player_stats[str(element_id)] update for a starter
\* mutant: a starter's score replaces the cumulative total
AddStartingOverwrite(stats, element_id, player_points) ==
  LET i == StatsIndex(stats, element_id, 1)
  IN IF i > 0
     THEN [stats EXCEPT ![i].total_points = player_points]
     ELSE Append(stats, [id |-> element_id, total_points |-> player_points,
                         total_benched_points |-> 0])

AddStarting(stats, element_id, player_points) ==
  LET i == StatsIndex(stats, element_id, 1)
  IN IF i > 0
     THEN [stats EXCEPT ![i].total_points = @ + player_points]
     ELSE Append(stats, [id |-> element_id, total_points |-> player_points,
                         total_benched_points |-> 0])

\* mutant: the bench branch adds to total_points
AddBenchedToTotal(stats, element_id, player_points) ==
  LET i == StatsIndex(stats, element_id, 1)
  IN IF i > 0
     THEN [stats EXCEPT ![i].total_points = @ + player_points]
     ELSE Append(stats, [id |-> element_id, total_points |-> 0,
                         total_benched_points |-> player_points])

\* total_player_stats[str(element_id)] update for a bench player
AddBenched(stats, element_id, player_points) ==
  LET i == StatsIndex(stats, element_id, 1)
  IN IF i > 0
     THEN [stats EXCEPT ![i].total_benched_points = @ + player_points]
     ELSE Append(stats, [id |-> element_id, total_points |-> 0,
                         total_benched_points |-> player_points])

\* an iteration of the loop over the picks raises: KeyError on a player the
\* directory does not list, IndexError on team_formation[true_position - 1]
\* of a starter
PickRaises(pick) ==
  \/ pick.element \notin DOMAIN bootstrap_players
  \/ /\ IsStarter(pick)
     /\ ListIndex(bootstrap_players[pick.element] - 1, 4) = 0

LoopRaises(picks) == \E i \in 1..Len(picks) : PickRaises(picks[i])

\* squad[player['true_position'] - 1].append(player) raises IndexError
SolverRaises(picks) ==
  \E i \in 1..Len(picks) :
    /\ picks[i].element \in DOMAIN bootstrap_players
    /\ ListIndex(bootstrap_players[picks[i].element] - 1, 4) = 0

\* mutant: team_formation is incremented for bench players too
ProcessPickCountsBench(output, pick, scores) ==
  LET element_id == pick.element
      player_points == PlayerPoints(scores, element_id)
      true_position == bootstrap_players[element_id]
      player == [element |-> element_id, position |-> pick.position,
                 true_position |-> true_position, points |-> player_points,
                 benched |-> ~IsStarter(pick)]
  IN IF IsStarter(pick)
     THEN [output EXCEPT
             !.team_formation[ListIndex(true_position - 1, 4)] = @ + 1,
             !.week_points = @ + player_points,
             !.total_points = @ + player_points,
             !.total_player_stats = AddStarting(@, element_id, player_points),
             !.player_stats = Append(@, player)]
     ELSE [output EXCEPT
             !.team_formation[ListIndex(true_position - 1, 4)] = @ + 1,
             !.benched_points = @ + player_points,
             !.total_player_stats = AddBenched(@, element_id, player_points),
             !.player_stats = Append(@, player)]

\* one iteration of the loop over team_data['picks']
ProcessPick(output, pick, scores) ==
  LET element_id == pick.element
      player_points == PlayerPoints(scores, element_id)
      true_position == bootstrap_players[element_id]
      player == [element |-> element_id, position |-> pick.position,
                 true_position |-> true_position, points |-> player_points,
                 benched |-> ~IsStarter(pick)]
  IN IF IsStarter(pick)
     THEN [output EXCEPT
             !.team_formation[ListIndex(true_position - 1, 4)] = @ + 1,
             !.week_points = @ + player_points,
             !.total_points = @ + player_points,
             !.total_player_stats = AddStarting(@, element_id, player_points),
             !.player_stats = Append(@, player)]
     ELSE [output EXCEPT
             !.benched_points = @ + player_points,
             !.total_player_stats = AddBenched(@, element_id, player_points),
             !.player_stats = Append(@, player)]

\* mutant: sorted ascending and then reversed, which reverses the ties
sort_total_player_stats_reversed(output) ==
  LET stats == output.total_player_stats
      keyed == [i \in 1..Len(stats) |-> [key |-> 0 - stats[i].total_points, val |-> stats[i]]]
      srt == SortedDesc(keyed)
  IN [output EXCEPT !.total_player_stats =
        [i \in 1..Len(srt) |-> srt[Len(srt) + 1 - i].val]]

sort_total_player_stats(output) ==
  LET stats == output.total_player_stats
      keyed == [i \in 1..Len(stats) |-> [key |-> stats[i].total_points, val |-> stats[i]]]
      srt == SortedDesc(keyed)
  IN [output EXCEPT !.total_player_stats = [i \in 1..Len(srt) |-> srt[i].val]]

ZeroTotals(raised) ==
  [raised |-> raised, total_points |-> 0, total_optimal_points |-> 0,
   total_player_stats |-> <<>>]

\* mutant: the previous record is loaded but its totals are not carried over
PrevTotalsReset(gwk, prev_file) ==
  ZeroTotals(gwk > 1 /\ ~IsJson(prev_file))

\* mutant: a previous record that cannot be loaded is replaced by zeros
PrevTotalsOrZero(gwk, prev_file) ==
  IF gwk > 1 /\ IsJson(prev_file)
  THEN [raised |-> FALSE,
        total_points |-> prev_file.data.total_points,
        total_optimal_points |-> prev_file.data.total_optimal_points,
        total_player_stats |-> prev_file.data.total_player_stats]
  ELSE ZeroTotals(FALSE)

\* the seed of the cumulative fields: read from the previous record's file
\* (the open/json.load raises when it cannot be loaded), or zero for gw 1
PrevTotals(gwk, prev_file) ==
  IF gwk > 1
  THEN IF IsJson(prev_file)
       THEN [raised |-> FALSE,
             total_points |-> prev_file.data.total_points,
             total_optimal_points |-> prev_file.data.total_optimal_points,
             total_player_stats |-> prev_file.data.total_player_stats]
       ELSE ZeroTotals(TRUE)
  ELSE ZeroTotals(FALSE)

NewOutput(team_id, gwk, seed) ==
  [team_id |-> team_id,
   gameweek |-> gwk,
   team_formation |-> <<0, 0, 0, 0>>,
   max_formation |-> <<1, 5, 5, 3>>,
   min_formation |-> <<1, 3, 2, 1>>,
   week_points |-> 0,
   benched_points |-> 0,
   optimal_points |-> 0,
   league_rank |-> 0,
   optimal_league_rank |-> 0,
   total_points |-> seed.total_points,
   total_optimal_points |-> seed.total_optimal_points,
   player_stats |-> <<>>,
   total_player_stats |-> seed.total_player_stats]

\* the record calculate_gw_stats dumps, given the loaded roster and the
\* seed of the cumulative fields
GwStatsOutput(team_id, gwk, picks, seed, scores) ==
  LET RECURSIVE Loop(_, _)
      Loop(i, output) ==
        IF i > Len(picks) THEN output
        ELSE Loop(i + 1, ProcessPick(output, picks[i], scores))
      filled == sort_total_player_stats(
                  Loop(1, NewOutput(team_id, gwk, seed)))
      optimal == calculate_optimal_points(filled.player_stats)
  IN [filled EXCEPT !.optimal_points = optimal,
                    !.total_optimal_points = @ + optimal]

\* outcomes of open(..., 'w') + json.dump: written, IOError before the file
\* is touched, IOError after it was truncated
WriteOutcomes == {"ok", "ioerror", "ioerror_truncated"}

Written(old, data, w) ==
  IF w = "ok" THEN File(data) ELSE IF w = "ioerror" THEN old ELSE Corrupt

Call(op, team_id, gwk, outcome) ==
  [op |-> op, team |-> team_id, gw |-> gwk, result |-> outcome]

\* mutant: the record is written to the path the previous record was read from
AdjustedPathOfPrevious(team_id, gwk) ==
  <<team_id, IF gwk > 1 THEN gwk - 1 ELSE gwk>>

\* {league_id}_data/{team_id}/gw_{gw}_adjusted.json, the file the build writes
AdjustedPath(team_id, gwk) == <<team_id, gwk>>

\* calculate_gw_stats(league_id, team_id, gw, ...) when the roster file of
\* (team_id, gw) is roster: "none" is the early return None, "raise" an
\* exception that leaves the function
BuildFrom(team_id, gwk, roster) ==
    LET seed == PrevTotals(gwk, IF gwk > 1 THEN gw_adjusted[<<team_id, gwk - 1>>]
                                            ELSE NoFile)
    IN IF ~IsJson(roster)
       THEN /\ last' = Call("build", team_id, gwk, "none")
            /\ team_data' = [team_data EXCEPT ![<<team_id, gwk>>] = roster]
            /\ UNCHANGED gw_adjusted
       ELSE IF seed.raised \/ LoopRaises(roster.data) \/ SolverRaises(roster.data)
       THEN /\ last' = Call("build", team_id, gwk, "raise")
            /\ team_data' = [team_data EXCEPT ![<<team_id, gwk>>] = roster]
            /\ UNCHANGED gw_adjusted
       ELSE \E w \in WriteOutcomes :
              LET output == GwStatsOutput(team_id, gwk, roster.data, seed,
                                          gw_data_cache[gwk])
              IN /\ gw_adjusted' = [gw_adjusted EXCEPT ![AdjustedPath(team_id, gwk)] =
                                      Written(@, output, w)]
                 /\ team_data' = [team_data EXCEPT ![<<team_id, gwk>>] =
                                    IF w = "ok" THEN roster ELSE Discarded]
                 /\ last' = Call("build", team_id, gwk,
                                 IF w = "ok" THEN "ok" ELSE "none")

\* the call in main: the roster file is one the provider handed out, or missing
calculate_gw_stats(team_id, gwk) ==
  \E roster \in {File(r) : r \in RosterChoices(team_id)} \cup {NoFile} :
    BuildFrom(team_id, gwk, roster)

(* ------------------------------------------------------------------------ *)
(* calculate_league_positions                                               *)
(* ------------------------------------------------------------------------ *)
\* the totals read in the load loop, keyed by team id
team_ids_points(gwk) ==
  [t \in TeamIdSet |-> gw_adjusted[<<t, gwk>>].data.total_points]

team_ids_optimal_points(gwk) ==
  [t \in TeamIdSet |-> gw_adjusted[<<t, gwk>>].data.total_optimal_points]

\* mutant: sorted ascending and then reversed, which reverses the ties
SortedTeamsReversed(d) ==
  LET srt == SortedDesc([i \in 1..NumTeams |->
                           [key |-> 0 - d[team_ids[i]], val |-> team_ids[i]]])
  IN [i \in 1..NumTeams |-> srt[NumTeams + 1 - i]]

\* sorted(d.items(), key=lambda x: x[1], reverse=True), the items of d being
\* in team_ids order
SortedTeams(d) ==
  SortedDesc([i \in 1..NumTeams |-> [key |-> d[team_ids[i]], val |-> team_ids[i]]])

\* mutant: enumerate(sorted) without start=1
RankInFromZero(sorted, team_id) ==
  (CHOOSE rank \in 1..Len(sorted) : sorted[rank].val = team_id) - 1

\* enumerate(sorted, start=1): the rank given to team_id
RankIn(sorted, team_id) ==
  CHOOSE rank \in 1..Len(sorted) : sorted[rank].val = team_id

\* mutant: both rank loops run over sorted_teams_by_points
RankedCacheByPoints(gwk) ==
  LET by_points == SortedTeams(team_ids_points(gwk))
  IN [t \in TeamIdSet |->
        [gw_adjusted[<<t, gwk>>].data EXCEPT
           !.league_rank = RankIn(by_points, t),
           !.optimal_league_rank = RankIn(by_points, t)]]

\* team_data_cache after both rank loops
RankedCache(gwk) ==
  LET by_points == SortedTeams(team_ids_points(gwk))
      by_optimal == SortedTeams(team_ids_optimal_points(gwk))
  IN [t \in TeamIdSet |->
        [gw_adjusted[<<t, gwk>>].data EXCEPT
           !.league_rank = RankIn(by_points, t),
           !.optimal_league_rank = RankIn(by_optimal, t)]]

\* index in team_ids of the first team whose record cannot be loaded, 0 if none
FirstUnloadable(gwk) ==
  LET bad == {i \in 1..NumTeams : ~IsJson(gw_adjusted[<<team_ids[i], gwk>>])}
  IN IF bad = {} THEN 0 ELSE CHOOSE i \in bad : \A j \in bad : i <= j

\* the files after the write loop; fail_at = 0: every write succeeds,
\* fail_at = k: the k-th write raises IOError with outcome w
FilesAfterWrites(gwk, cache, fail_at, w) ==
  [key \in Keys |->
     IF key[2] # gwk THEN gw_adjusted[key]
     ELSE LET i == CHOOSE j \in 1..NumTeams : team_ids[j] = key[1]
          IN IF fail_at = 0 \/ i < fail_at THEN File(cache[key[1]])
             ELSE IF i = fail_at THEN Written(gw_adjusted[key], cache[key[1]], w)
             ELSE gw_adjusted[key]]

\* mutant: a team whose record is missing is skipped and the others are ranked
calculate_league_positions_skip_missing(gwk) ==
  LET loaded == {t \in TeamIdSet : IsJson(gw_adjusted[<<t, gwk>>])}
      Ahead(t, Total(_)) == {u \in loaded : Total(u) > Total(t)}
      Points(t) == gw_adjusted[<<t, gwk>>].data.total_points
      Optimal(t) == gw_adjusted[<<t, gwk>>].data.total_optimal_points
  IN /\ gw_adjusted' =
          [key \in Keys |->
             IF key[2] = gwk /\ key[1] \in loaded
             THEN File([gw_adjusted[key].data EXCEPT
                          !.league_rank = 1 + Cardinality(Ahead(key[1], Points)),
                          !.optimal_league_rank = 1 + Cardinality(Ahead(key[1], Optimal))])
             ELSE gw_adjusted[key]]
     /\ last' = Call("rank", 0, gwk, "ok")

\* calculate_league_positions(league_id, team_ids, gw): "exit" is exit(1),
\* "raise" an exception that leaves the function
calculate_league_positions(gwk) ==
  LET missing == FirstUnloadable(gwk)
  IN IF missing > 0
     THEN /\ last' = Call("rank", 0, gwk,
                          IF gw_adjusted[<<team_ids[missing], gwk>>] = NoFile
                          THEN "exit" ELSE "raise")
          /\ UNCHANGED gw_adjusted
     ELSE \E fail_at \in 0..NumTeams, w \in WriteOutcomes \ {"ok"} :
            /\ gw_adjusted' = FilesAfterWrites(gwk, RankedCache(gwk), fail_at, w)
            /\ last' = Call("rank", 0, gwk, IF fail_at = 0 THEN "ok" ELSE "exit")

(* ------------------------------------------------------------------------ *)
(* What is at rest while calculate_points runs: no build is in progress and *)
(* send_updates has not run                                                 *)
(* ------------------------------------------------------------------------ *)
\* nothing read yet by the build of a team
Idle == [kind |-> "idle"]

NoPending == [t \in TeamIdSet |-> Idle]

\* the blocks of send_updates, in the order of the code
Blocks ==
  <<"table_webhook", "table_optimal_webhook", "waiver_report_webhook",
    "trade_tracker_webhook", "trade_free_agent_alert", "waiver_tracker_webhook">>

\* the keys of discord_config.json that hold a webhook URL
config == {"table_webhook", "table_optimal_webhook"}

\* check_sent_updates when sent_updates.json does not exist
EmptyLists == [key \in config |-> <<>>]

UpdatesIdle ==
  /\ sent_file = NoFile
  /\ sent_updates = EmptyLists
  /\ delivered = [key \in config |-> [g \in Gws |-> 0]]
  /\ attempted = EmptyLists
  /\ wh = 0
  /\ runs = 0

(* ------------------------------------------------------------------------ *)
(* main                                                                     *)
(* ------------------------------------------------------------------------ *)
NoCall == Call("none", 0, 0, "none")

\* load_gw_data_cache: the score index of each gameweek
LoadedCaches ==
  {[g \in Gws |-> ScoreTables[((k + g - 1) % Len(ScoreTables)) + 1]] :
     k \in 0..(Len(ScoreTables) - 1)}

\* the data directory before the first run: rosters pulled, nothing computed
FreshFiles ==
  /\ gw_data_cache \in LoadedCaches
  /\ team_data = [key \in Keys |-> Unread]
  /\ gw_adjusted = [key \in Keys |-> NoFile]
  /\ ncalls = 0
  /\ last = NoCall
  /\ pending = NoPending
  /\ UpdatesIdle

Init ==
  /\ FreshFiles
  /\ pc = "build"
  /\ gw = 1
  /\ ti = 1
  /\ pool = <<>>
  /\ solved = 0

\* mutant: the ranking call sits after the gameweek loop, not inside it
MainBuildNoBarrier ==
  /\ pc = "build"
  /\ calculate_gw_stats(team_ids[ti], gw)
  /\ ncalls' = ncalls + 1
  /\ IF last'.result = "raise"
     THEN pc' = "crash" /\ ti' = ti /\ gw' = gw
     ELSE IF ti < NumTeams
     THEN pc' = "build" /\ ti' = ti + 1 /\ gw' = gw
     ELSE IF gw < get_current_gw
     THEN pc' = "build" /\ ti' = 1 /\ gw' = gw + 1
     ELSE pc' = "rank" /\ ti' = ti /\ gw' = gw
  /\ UNCHANGED <<gw_data_cache, pool, solved>>
  /\ UNCHANGED <<pending, updates_vars>>

\* mutant: a build that returned None is tried again
MainBuildRetry ==
  /\ pc = "build"
  /\ calculate_gw_stats(team_ids[ti], gw)
  /\ ncalls' = ncalls + 1
  /\ gw' = gw
  /\ IF last'.result = "raise"
     THEN pc' = "crash" /\ ti' = ti
     ELSE IF last'.result = "none"
     THEN pc' = "build" /\ ti' = ti
     ELSE IF ti < NumTeams
     THEN pc' = "build" /\ ti' = ti + 1
     ELSE pc' = "rank" /\ ti' = ti
  /\ UNCHANGED <<gw_data_cache, pool, solved>>
  /\ UNCHANGED <<pending, updates_vars>>

\* one iteration of the inner loop of main
MainBuild ==
  /\ pc = "build"
  /\ calculate_gw_stats(team_ids[ti], gw)
  /\ ncalls' = ncalls + 1
  /\ gw' = gw
  /\ IF last'.result = "raise"
     THEN pc' = "crash" /\ ti' = ti
     ELSE IF ti < NumTeams
     THEN pc' = "build" /\ ti' = ti + 1
     ELSE pc' = "rank" /\ ti' = ti
  /\ UNCHANGED <<gw_data_cache, pool, solved>>
  /\ UNCHANGED <<pending, updates_vars>>

\* mutant: the run goes on to the next gameweek after exit(1)
MainRankContinue ==
  /\ pc = "rank"
  /\ calculate_league_positions(gw)
  /\ ncalls' = ncalls + 1
  /\ IF last'.result = "raise"
     THEN pc' = "crash" /\ gw' = gw /\ ti' = ti
     ELSE IF gw < get_current_gw
     THEN pc' = "build" /\ gw' = gw + 1 /\ ti' = 1
     ELSE pc' = "done" /\ gw' = gw /\ ti' = ti
  /\ UNCHANGED <<gw_data_cache, team_data, pool, solved>>
  /\ UNCHANGED <<pending, updates_vars>>

\* mutant: the run ends after the first ranking pass
MainRankStopsEarly ==
  /\ pc = "rank"
  /\ calculate_league_positions(gw)
  /\ ncalls' = ncalls + 1
  /\ IF last'.result = "raise"
     THEN pc' = "crash" /\ gw' = gw /\ ti' = ti
     ELSE IF last'.result = "exit"
     THEN pc' = "exit" /\ gw' = gw /\ ti' = ti
     ELSE pc' = "done" /\ gw' = gw /\ ti' = ti
  /\ UNCHANGED <<gw_data_cache, team_data, pool, solved>>
  /\ UNCHANGED <<pending, updates_vars>>

\* the ranking call that ends an iteration of the outer loop of main
MainRank ==
  /\ pc = "rank"
  /\ calculate_league_positions(gw)
  /\ ncalls' = ncalls + 1
  /\ IF last'.result = "raise"
     THEN pc' = "crash" /\ gw' = gw /\ ti' = ti
     ELSE IF last'.result = "exit"
     THEN pc' = "exit" /\ gw' = gw /\ ti' = ti
     ELSE IF gw < get_current_gw
     THEN pc' = "build" /\ gw' = gw + 1 /\ ti' = 1
     ELSE pc' = "done" /\ gw' = gw /\ ti' = ti
  /\ UNCHANGED <<gw_data_cache, team_data, pool, solved>>
  /\ UNCHANGED <<pending, updates_vars>>

Next == MainBuild \/ MainRank

Spec == Init /\ [][Next]_vars

\* the interpreter keeps executing the loops of main: a call that can be made
\* is made
FairSpec == Spec /\ WF_vars(Next)

(* ------------------------------------------------------------------------ *)
(* calculate_gw_stats called on its own, for one team, in any gameweek order *)
(* ------------------------------------------------------------------------ *)
CallsInit ==
  /\ FreshFiles
  /\ pc = "calls"
  /\ gw = 1
  /\ ti = 1
  /\ pool = <<>>
  /\ solved = 0

CallBuild ==
  /\ pc = "calls"
  /\ ncalls < MaxCalls
  /\ \E gwk \in Gws : calculate_gw_stats(team_ids[1], gwk)
  /\ ncalls' = ncalls + 1
  /\ pc' = IF last'.result = "raise" THEN "crash" ELSE "calls"
  /\ UNCHANGED <<gw_data_cache, gw, ti, pool, solved>>
  /\ UNCHANGED <<pending, updates_vars>>

SpecCalls == CallsInit /\ [][CallBuild]_vars

(* ------------------------------------------------------------------------ *)
(* calculate_gw_stats called on its own, for any team and gameweek, on      *)
(* roster files of any content                                              *)
(* ------------------------------------------------------------------------ *)
BuilderInit ==
  /\ gw_data_cache = [g \in Gws |-> ScoreTables[((g - 1) % Len(ScoreTables)) + 1]]
  /\ team_data = [key \in Keys |-> Unread]
  /\ gw_adjusted = [key \in Keys |-> NoFile]
  /\ ncalls = 0
  /\ last = NoCall
  /\ pending = NoPending
  /\ UpdatesIdle
  /\ pc = "builder"
  /\ gw = 1
  /\ ti = 1
  /\ pool = <<>>
  /\ solved = 0

BuildAny ==
  /\ pc = "builder"
  /\ ncalls < MaxCalls
  /\ \E team_id \in TeamIdSet, gwk \in Gws :
       \E roster \in {File(r) : r \in RosterChoices(team_id) \cup MalformedRosters}
                        \cup {NoFile} :
         BuildFrom(team_id, gwk, roster)
  /\ ncalls' = ncalls + 1
  /\ pc' = IF last'.result = "raise" THEN "crash" ELSE "builder"
  /\ UNCHANGED <<gw_data_cache, gw, ti, pool, solved>>
  /\ UNCHANGED <<pending, updates_vars>>

SpecBuilder == BuilderInit /\ [][BuildAny]_vars

(* ------------------------------------------------------------------------ *)
(* calculate_optimal_points applied to a pool of players                    *)
(* ------------------------------------------------------------------------ *)
PoolScores == {-2, 1, 4}

\* a pool of n[c] players of category c, player i scoring v[i % 3]
PoolOf(n, v) ==
  [i \in 1..(n[1] + n[2] + n[3] + n[4]) |->
     [element |-> i, position |-> i,
      true_position |-> IF i <= n[1] THEN 1
                        ELSE IF i <= n[1] + n[2] THEN 2
                        ELSE IF i <= n[1] + n[2] + n[3] THEN 3
                        ELSE 4,
      points |-> v[i % 3],
      benched |-> i > 11]]

Pools ==
  {PoolOf(<<n1, n2, n3, n4>>, v) :
     n1 \in 0..MaxKeepers, n2 \in 0..MaxDefenders, n3 \in 0..MaxMidfielders,
     n4 \in 0..MaxForwards, v \in [0..2 -> PoolScores]}

\* GK [4], DEF [8,6,5,3,2], MID [10,9,7,4,1], FWD [12,6,3]
ExamplePool ==
  LET pts == <<4, 8, 6, 5, 3, 2, 10, 9, 7, 4, 1, 12, 6, 3>>
  IN [i \in 1..14 |-> [PoolOf(<<1, 5, 5, 3>>, [j \in 0..2 |-> 0])[i] EXCEPT !.points = pts[i]]]

SolverInit ==
  /\ pool \in Pools \cup {ExamplePool}
  /\ solved = 0
  /\ pc = "solve"
  /\ gw_data_cache = [g \in Gws |-> ScoresExample]
  /\ team_data = [key \in Keys |-> Unread]
  /\ gw_adjusted = [key \in Keys |-> NoFile]
  /\ gw = 1
  /\ ti = 1
  /\ ncalls = 0
  /\ last = NoCall
  /\ pending = NoPending
  /\ UpdatesIdle

Solve ==
  /\ pc = "solve"
  /\ solved' = calculate_optimal_points(pool)
  /\ pc' = "solved"
  /\ UNCHANGED <<gw_data_cache, team_data, gw_adjusted, gw, ti, ncalls, last, pool>>
  /\ UNCHANGED <<pending, updates_vars>>

SpecSolver == SolverInit /\ [][Solve]_vars

(* ------------------------------------------------------------------------ *)
(* calculate_optimal_points applied again to the same players in another    *)
(* order                                                                    *)
(* ------------------------------------------------------------------------ *)
\* the orders the list is handed over in: every permutation of a list of at
\* most MaxPermuted players; reversed, rotated and riffled for a longer one
Reorderings(player_stats) ==
  LET n == Len(player_stats)
  IN IF n <= MaxPermuted
     THEN {[i \in 1..n |-> player_stats[f[i]]] : f \in Permutations(1..n)}
     ELSE {[i \in 1..n |-> player_stats[n + 1 - i]],
           [i \in 1..n |-> player_stats[(i % n) + 1]],
           [i \in 1..n |-> player_stats[IF 2 * i - 1 <= n THEN 2 * i - 1
                                        ELSE 2 * (i - (n + 1) \div 2)]]}

Reorder ==
  /\ pc = "solved"
  /\ \E player_stats \in Reorderings(pool) :
       /\ pool' = player_stats
       /\ solved' = calculate_optimal_points(player_stats)
  /\ pc' = "reordered"
  /\ UNCHANGED <<gw_data_cache, team_data, gw_adjusted, gw, ti, ncalls, last>>
  /\ UNCHANGED <<pending, updates_vars>>

\* the pools whose first player outscores the second
OrderInit ==
  /\ SolverInit
  /\ Len(pool) >= 2 => pool[1].points > pool[2].points

SpecOrder == OrderInit /\ [][Solve \/ Reorder]_vars

(* ------------------------------------------------------------------------ *)
(* The data directory after main has completed the gameweeks 1..k           *)
(* ------------------------------------------------------------------------ *)
\* the score index main loaded
MainCache == [g \in Gws |-> ScoreTables[((g - 1) % Len(ScoreTables)) + 1]]

\* the roster of the team's gw_{gw}_complete.json
RosterOf(team_id, gwk) == Rosters[((team_id + (gwk % 2)) % Len(Rosters)) + 1]

\* the records the builds of gameweek gwk write, given the files before them
BuiltRecords(files, gwk) ==
  [t \in TeamIdSet |->
     GwStatsOutput(t, gwk, RosterOf(t, gwk),
                   PrevTotals(gwk, IF gwk > 1 THEN files[<<t, gwk - 1>>] ELSE NoFile),
                   MainCache[gwk])]

\* the same records after the ranking pass of the gameweek
RankedRecords(built) ==
  LET by_points == SortedTeams([t \in TeamIdSet |-> built[t].total_points])
      by_optimal == SortedTeams([t \in TeamIdSet |-> built[t].total_optimal_points])
  IN [t \in TeamIdSet |->
        [built[t] EXCEPT !.league_rank = RankIn(by_points, t),
                         !.optimal_league_rank = RankIn(by_optimal, t)]]

RECURSIVE CompletedFiles(_)
CompletedFiles(k) ==
  IF k = 0 THEN [key \in Keys |-> NoFile]
  ELSE LET before == CompletedFiles(k - 1)
           ranked == RankedRecords(BuiltRecords(before, k))
       IN [key \in Keys |-> IF key[2] = k THEN File(ranked[key[1]]) ELSE before[key]]

CompletedRosters(k) ==
  [key \in Keys |-> IF key[2] <= k THEN File(RosterOf(key[1], key[2])) ELSE Unread]

(* ------------------------------------------------------------------------ *)
(* The build phase of one gameweek with the teams' builds run side by side: *)
(* each build first reads its files, later computes and writes its record   *)
(* ------------------------------------------------------------------------ *)
\* mutant: the path of the previous record is left over from the build that
\* ended last
PreviousRecordOfLastBuilt(team_id, gwk) ==
  IF gwk > 1
  THEN gw_adjusted[<<IF last.op = "build" THEN last.team ELSE team_id, gwk - 1>>]
  ELSE NoFile

\* the file gw_{gw - 1}_adjusted.json the build of (team_id, gwk) opens
PreviousRecord(team_id, gwk) ==
  IF gwk > 1 THEN gw_adjusted[<<team_id, gwk - 1>>] ELSE NoFile

\* every team's build of the gameweek has returned
PhaseOver(rosters, in_progress) ==
  \A t \in TeamIdSet : rosters[<<t, gw>>] # Unread /\ in_progress[t] = Idle

PhaseInit ==
  /\ gw_data_cache = MainCache
  /\ gw \in Gws
  /\ gw_adjusted = CompletedFiles(gw - 1)
  /\ team_data = CompletedRosters(gw - 1)
  /\ ncalls = 0
  /\ last = NoCall
  /\ pending = NoPending
  /\ UpdatesIdle
  /\ pc = "phase"
  /\ ti = 1
  /\ pool = <<>>
  /\ solved = 0

\* the build of team_id opens its roster and its previous record
PhaseLoad(team_id) ==
  LET key == <<team_id, gw>>
      seed == PrevTotals(gw, PreviousRecord(team_id, gw))
  IN /\ pc = "phase"
     /\ team_data[key] = Unread
     /\ \E roster \in {File(r) : r \in RosterChoices(team_id)} \cup {NoFile} :
          /\ team_data' = [team_data EXCEPT ![key] = roster]
          /\ IF ~IsJson(roster)
             THEN /\ last' = Call("build", team_id, gw, "none")
                  /\ ncalls' = ncalls + 1
                  /\ pending' = pending
                  /\ pc' = IF PhaseOver(team_data', pending') THEN "rank" ELSE "phase"
             ELSE IF seed.raised
             THEN /\ last' = Call("build", team_id, gw, "raise")
                  /\ ncalls' = ncalls + 1
                  /\ pending' = pending
                  /\ pc' = "crash"
             ELSE /\ pending' = [pending EXCEPT ![team_id] =
                                   [kind |-> "loaded", roster |-> roster, seed |-> seed]]
                  /\ UNCHANGED <<last, ncalls, pc>>
     /\ UNCHANGED <<gw_data_cache, gw_adjusted, gw, ti, pool, solved, updates_vars>>

\* the build of team_id runs its loop, the solver and the write, and returns
PhaseWrite(team_id) ==
  LET key == <<team_id, gw>>
      read == pending[team_id]
  IN /\ pc = "phase"
     /\ read.kind = "loaded"
     /\ pending' = [pending EXCEPT ![team_id] = Idle]
     /\ ncalls' = ncalls + 1
     /\ IF LoopRaises(read.roster.data) \/ SolverRaises(read.roster.data)
        THEN /\ last' = Call("build", team_id, gw, "raise")
             /\ pc' = "crash"
             /\ UNCHANGED <<gw_adjusted, team_data>>
        ELSE \E w \in WriteOutcomes :
               LET output == GwStatsOutput(team_id, gw, read.roster.data, read.seed,
                                           gw_data_cache[gw])
               IN /\ gw_adjusted' = [gw_adjusted EXCEPT ![AdjustedPath(team_id, gw)] =
                                       Written(@, output, w)]
                  /\ team_data' = [team_data EXCEPT ![key] =
                                     IF w = "ok" THEN read.roster ELSE Discarded]
                  /\ last' = Call("build", team_id, gw,
                                  IF w = "ok" THEN "ok" ELSE "none")
                  /\ pc' = IF PhaseOver(team_data', pending') THEN "rank" ELSE "phase"
     /\ UNCHANGED <<gw_data_cache, gw, ti, pool, solved, updates_vars>>

PhaseNext == \E team_id \in TeamIdSet : PhaseLoad(team_id) \/ PhaseWrite(team_id)

SpecPhase == PhaseInit /\ [][PhaseNext]_vars

(* ------------------------------------------------------------------------ *)
(* send_updates, run again and again on the data directory                  *)
(* ------------------------------------------------------------------------ *)
\* mutant: the number of gameweeks sent stands in for the last one sent
last_element_sent_count(sent) == Len(sent)

\* max(sent_updates[key]) if sent_updates[key] else 0
last_element_sent(sent) ==
  IF sent = <<>> THEN 0
  ELSE CHOOSE m \in {sent[i] : i \in 1..Len(sent)} :
         \A i \in 1..Len(sent) : m >= sent[i]

\* print_tables(league_id, teams, gw): get_league_tables returns None when a
\* team's record is missing, which the unpacking turns into a TypeError, and
\* json.load raises on a record that was truncated
TablesRaise(gwk) == \E t \in TeamIdSet : ~IsJson(gw_adjusted[<<t, gwk>>])

\* the head of block i: the first gameweek to send, if the block is
\* configured and there is one
EnterBlock(i, lists) ==
  /\ wh' = i
  /\ IF Blocks[i] \in config
     THEN /\ gw' = last_element_sent(lists[Blocks[i]]) + 1
          /\ pc' = IF gw' <= get_current_gw THEN "send" ELSE "save"
     ELSE /\ gw' = gw
          /\ pc' = "save"

UpdInit ==
  /\ gw_data_cache = MainCache
  /\ \E k \in 0..MaxGw :
       /\ gw_adjusted = CompletedFiles(k)
       /\ team_data = CompletedRosters(k)
  /\ ncalls = 0
  /\ last = NoCall
  /\ pending = NoPending
  /\ UpdatesIdle
  /\ pc = "idle"
  /\ gw = 1
  /\ ti = 1
  /\ pool = <<>>
  /\ solved = 0

\* calculate_points is run between two runs of send_updates and completes
\* every gameweek
RunCalculatePoints ==
  /\ pc \in {"idle", "ended", "aborted"}
  /\ \E key \in Keys : ~IsJson(gw_adjusted[key])
  /\ gw_adjusted' = CompletedFiles(MaxGw)
  /\ team_data' = CompletedRosters(MaxGw)
  /\ UNCHANGED <<gw_data_cache, pc, gw, ti, ncalls, last, pool, solved, pending,
                 updates_vars>>

\* a run starts: check_sent_updates, then the head of the first block
UpdStart ==
  /\ pc \in {"idle", "ended", "aborted"}
  /\ runs < MaxRuns
  /\ runs' = runs + 1
  /\ attempted' = EmptyLists
  /\ IF sent_file = Corrupt
     THEN /\ sent_updates' = EmptyLists
          /\ pc' = "aborted"
          /\ wh' = 0
          /\ gw' = gw
     ELSE /\ sent_updates' = IF IsJson(sent_file) THEN sent_file.data ELSE EmptyLists
          /\ EnterBlock(1, sent_updates')
  /\ last' = Call("load", 0, 0, IF sent_file = Corrupt THEN "raise" ELSE "ok")
  /\ UNCHANGED <<gw_data_cache, team_data, gw_adjusted, ti, ncalls, pool, solved,
                 pending, sent_file, delivered>>

\* one iteration of the loop of a table block: print_tables, then
\* send_discord_webhook, which returns True or False
UpdSend ==
  LET key == Blocks[wh]
  IN /\ pc = "send"
     /\ IF TablesRaise(gw)
        THEN /\ pc' = "aborted"
             /\ last' = Call("send", wh, gw, "raise")
             /\ UNCHANGED <<sent_updates, delivered, attempted, gw>>
        ELSE /\ attempted' = [attempted EXCEPT ![key] = Append(@, gw)]
             /\ \E success \in BOOLEAN :
                  /\ sent_updates' = IF success
                                     THEN [sent_updates EXCEPT ![key] = Append(@, gw)]
                                     ELSE sent_updates
                  /\ delivered' = IF success
                                  THEN [delivered EXCEPT ![key][gw] = @ + 1]
                                  ELSE delivered
                  /\ last' = Call("send", wh, gw, IF success THEN "ok" ELSE "none")
             /\ gw' = gw + 1
             /\ pc' = IF gw' <= get_current_gw THEN "send" ELSE "save"
     /\ UNCHANGED <<gw_data_cache, team_data, gw_adjusted, ti, ncalls, pool, solved,
                    pending, sent_file, wh, runs>>

\* update_sent_updates after the loop of block wh, then the head of the next
\* block; an IOError ends the run with sys.exit(1)
UpdSave ==
  /\ pc = "save"
  /\ \E w \in WriteOutcomes :
       /\ sent_file' = Written(sent_file, sent_updates, w)
       /\ last' = Call("save", wh, 0, IF w = "ok" THEN "ok" ELSE "exit")
       /\ IF w # "ok"
          THEN pc' = "aborted" /\ wh' = wh /\ gw' = gw
          ELSE IF wh < Len(Blocks)
          THEN EnterBlock(wh + 1, sent_updates)
          ELSE pc' = "ended" /\ wh' = wh /\ gw' = gw
  /\ UNCHANGED <<gw_data_cache, team_data, gw_adjusted, ti, ncalls, pool, solved,
                 pending, sent_updates, delivered, attempted, runs>>

UpdNext == UpdStart \/ UpdSend \/ UpdSave \/ RunCalculatePoints

SpecUpdates == UpdInit /\ [][UpdNext]_vars

(* ------------------------------------------------------------------------ *)
(* Properties                                                               *)
(* ------------------------------------------------------------------------ *)
HasRecord(key) == IsJson(gw_adjusted[key])

Rec(key) == gw_adjusted[key].data

IsLegalFormation(f) == \E i \in 1..Len(formations) : formations[i] = f

\* a call was made in this step
Called == ncalls' = ncalls + 1

\* the last call was a ranking pass that completed
RankedOk == last.op = "rank" /\ last.result = "ok"

\* the score of player p in gameweek g, read off the score index
ScoreOf(g, p) == IF p \in DOMAIN gw_data_cache[g] THEN gw_data_cache[g][p] ELSE 0

\* the roster the build of key loaded
PicksOf(key) == team_data[key].data

\* F(1) + ... + F(n)
RECURSIVE SumTo(_, _)
SumTo(F(_), n) == IF n = 0 THEN 0 ELSE F(n) + SumTo(F, n - 1)

\* C1 as claimed: in every Gameweek Record, whatever the roster,
\* optimal_points >= week_points
C1_AnyRoster ==
  \A key \in Keys :
    HasRecord(key) => Rec(key).optimal_points >= Rec(key).week_points

\* C1 amended: in every Gameweek Record whose starters form one of the 8
\* legal formations, optimal_points >= week_points
C1_LegalRoster ==
  \A key \in Keys :
    (HasRecord(key) /\ IsLegalFormation(Rec(key).team_formation))
      => Rec(key).optimal_points >= Rec(key).week_points

C1_Witness ==
  \E key \in Keys :
    /\ HasRecord(key)
    /\ IsLegalFormation(Rec(key).team_formation)
    /\ Rec(key).week_points > 0
    /\ Rec(key).optimal_points > Rec(key).week_points

\* the largest of the 8 formations' achievable scores
BestFormationPoints(player_stats) ==
  LET sums == {FormationPoints(player_stats, formations[i]) : i \in 1..Len(formations)}
  IN CHOOSE m \in sums : \A x \in sums : m >= x

\* C2: the solver returns exactly the maximum over the 8 formations of the
\* sum of the top-k scores of each category bucket (negative scores
\* included), and 74 for the example pool
C2_ExactMaximum ==
  pc = "solved" =>
    /\ solved = BestFormationPoints(pool)
    /\ (pool = ExamplePool => solved = 74)

\* C3: total_points(gw) = prior + week_points(gw) and total_optimal_points(gw)
\* = prior_optimal + optimal_points(gw), the priors being those of the same
\* team's gw-1 record (0 for gw 1); so total_points is the sum of week_points
\* over gameweeks 1..gw
C3_Totals ==
  \A key \in Keys :
    HasRecord(key) =>
      LET r == Rec(key)
          t == key[1]
          g == key[2]
      IN /\ g > 1 => HasRecord(<<t, g - 1>>)
         /\ r.total_points =
              (IF g > 1 THEN Rec(<<t, g - 1>>).total_points ELSE 0) + r.week_points
         /\ r.total_optimal_points =
              (IF g > 1 THEN Rec(<<t, g - 1>>).total_optimal_points ELSE 0)
              + r.optimal_points
         /\ (\A h \in 1..g : HasRecord(<<t, h>>))
         /\ r.total_points = SumTo(LAMBDA h : Rec(<<t, h>>).week_points, g)

C3_Witness ==
  \E key \in Keys :
    /\ key[2] > 1
    /\ HasRecord(key)
    /\ Rec(key).week_points # 0
    /\ Rec(key).optimal_points # 0
    /\ Rec(<<key[1], key[2] - 1>>).total_points # 0
    /\ Rec(<<key[1], key[2] - 1>>).total_optimal_points # 0

\* C4: a ranking pass for gw starts only after the build of every team for gw
\* has finished, and a build for gw+1 starts only after the ranking pass for
\* gw: when it starts, every team's gw record has both ranks in 1..N
C4_Barrier ==
  [][Called =>
       /\ last'.op = "rank" =>
            \A t \in TeamIdSet : team_data[<<t, last'.gw>>].kind # "unread"
       /\ (last'.op = "build" /\ last'.gw > 1) =>
            \A t \in TeamIdSet :
              /\ HasRecord(<<t, last'.gw - 1>>)
              /\ Rec(<<t, last'.gw - 1>>).league_rank \in 1..NumTeams
              /\ Rec(<<t, last'.gw - 1>>).optimal_league_rank \in 1..NumTeams]_vars

C4_Witness == last.op = "build" /\ last.gw > 1 /\ last.result = "ok"

\* C5 as claimed: a build for gw > 1 whose gw-1 record does not exist fails
\* fatally and writes nothing
C5_MissingPrevious ==
  [][(/\ Called
      /\ last'.op = "build"
      /\ last'.gw > 1
      /\ gw_adjusted[<<last'.team, last'.gw - 1>>].kind = "missing")
       => (last'.result = "raise" /\ gw_adjusted' = gw_adjusted)]_vars

\* C5 amended: a build for gw > 1 whose roster file loads and whose gw-1
\* record does not exist fails fatally and writes nothing
C5_MissingPreviousWithRoster ==
  [][(/\ Called
      /\ last'.op = "build"
      /\ last'.gw > 1
      /\ IsJson(team_data'[<<last'.team, last'.gw>>])
      /\ gw_adjusted[<<last'.team, last'.gw - 1>>].kind = "missing")
       => (last'.result = "raise" /\ gw_adjusted' = gw_adjusted)]_vars

C5_Witness ==
  /\ last.op = "build"
  /\ last.gw > 1
  /\ last.result = "raise"
  /\ IsJson(team_data[<<last.team, last.gw>>])
  /\ gw_adjusted[<<last.team, last.gw - 1>>].kind = "missing"
  /\ ~HasRecord(<<last.team, last.gw>>)

\* C6: a ranking pass that finds the record of some team missing aborts the
\* run and leaves every stored record unchanged
C6_NoPartialRanking ==
  [][(/\ Called
      /\ last'.op = "rank"
      /\ \E t \in TeamIdSet : gw_adjusted[<<t, last'.gw>>].kind = "missing")
       => (/\ last'.result \in {"exit", "raise"}
           /\ pc' \in {"exit", "crash"}
           /\ gw_adjusted' = gw_adjusted)]_vars

C6_Witness ==
  /\ last.op = "rank"
  /\ last.result = "exit"
  /\ pc = "exit"
  /\ \E t \in TeamIdSet : gw_adjusted[<<t, last.gw>>].kind = "missing"
  /\ \E t \in TeamIdSet : HasRecord(<<t, last.gw>>) /\ Rec(<<t, last.gw>>).league_rank = 0

DistinctTotals(g) ==
  \A a, b \in TeamIdSet :
    a # b => Rec(<<a, g>>).total_points # Rec(<<b, g>>).total_points

\* C7: with pairwise distinct total_points the ranking pass assigns
\* league_rank values that are exactly 1..N, and rank 1 has the maximum
C7_RanksArePermutation ==
  (RankedOk /\ DistinctTotals(last.gw)) =>
     /\ {Rec(<<t, last.gw>>).league_rank : t \in TeamIdSet} = 1..NumTeams
     /\ \A a, b \in TeamIdSet :
          a # b => Rec(<<a, last.gw>>).league_rank # Rec(<<b, last.gw>>).league_rank
     /\ \A a \in TeamIdSet :
          Rec(<<a, last.gw>>).league_rank = 1 =>
            \A b \in TeamIdSet :
              Rec(<<a, last.gw>>).total_points >= Rec(<<b, last.gw>>).total_points

C7_Witness ==
  /\ RankedOk
  /\ DistinctTotals(last.gw)
  /\ \E t \in TeamIdSet : Rec(<<t, last.gw>>).league_rank = NumTeams

\* C8: after the ranking pass a larger total_points means a smaller
\* league_rank and a larger total_optimal_points a smaller
\* optimal_league_rank, each ordering by its own total
C8_RankOrder ==
  RankedOk =>
    \A a, b \in TeamIdSet :
      LET ra == Rec(<<a, last.gw>>)
          rb == Rec(<<b, last.gw>>)
      IN /\ ra.total_points > rb.total_points => ra.league_rank < rb.league_rank
         /\ ra.total_optimal_points > rb.total_optimal_points
              => ra.optimal_league_rank < rb.optimal_league_rank

\* a team ahead on points and behind on optimal points
C8_Witness ==
  /\ RankedOk
  /\ \E a, b \in TeamIdSet :
       LET ra == Rec(<<a, last.gw>>)
           rb == Rec(<<b, last.gw>>)
       IN /\ ra.total_points > rb.total_points
          /\ ra.total_optimal_points < rb.total_optimal_points
          /\ ra.league_rank < rb.league_rank
          /\ ra.optimal_league_rank > rb.optimal_league_rank

\* where roster picks has player p: "start" (position <= 11), "bench", "off"
SlotOf(picks, p) ==
  IF \E i \in 1..Len(picks) : picks[i].element = p /\ picks[i].position <= 11
  THEN "start"
  ELSE IF \E i \in 1..Len(picks) : picks[i].element = p THEN "bench" ELSE "off"

\* the record of key, or a roster it was computed from, changes in this step
RecordWritten(key) ==
  /\ HasRecord(key)'
  /\ \/ gw_adjusted'[key] # gw_adjusted[key]
     \/ \E h \in 1..key[2] : team_data'[<<key[1], h>>] # team_data[<<key[1], h>>]

\* p's scores summed over the gameweeks 1..g the team had p in slot kind
RECURSIVE SlotSum(_, _, _, _)
SlotSum(t, g, p, kind) ==
  IF g = 0 THEN 0
  ELSE SlotSum(t, g - 1, p, kind)
       + (IF SlotOf(PicksOf(<<t, g>>), p) = kind THEN ScoreOf(g, p) ELSE 0)

\* a step that creates a record, changes its cumulative list, or changes one
\* of the rosters the list is summed over (the ranking pass rewrites the
\* record with the list untouched)
StatsWritten(key) ==
  /\ HasRecord(key)'
  /\ \/ ~HasRecord(key)
     \/ Rec(key)'.total_player_stats # Rec(key).total_player_stats
     \/ \E h \in 1..key[2] : team_data'[<<key[1], h>>] # team_data[<<key[1], h>>]

\* the players on one of the team's rosters of gameweeks 1..g
Rostered(t, g) ==
  {PicksOf(<<t, h[1]>>)[h[2]].element :
     h \in {x \in (1..g) \X (1..15) : x[2] <= Len(PicksOf(<<t, x[1]>>))}}

C9_Record(key) ==
  /\ \A h \in 1..key[2] : IsJson(team_data[<<key[1], h>>])
  /\ {Rec(key).total_player_stats[i].id : i \in 1..Len(Rec(key).total_player_stats)}
       = Rostered(key[1], key[2])
  /\ Len(Rec(key).total_player_stats) = Cardinality(Rostered(key[1], key[2]))
  /\ \A i \in 1..Len(Rec(key).total_player_stats) :
       /\ Rec(key).total_player_stats[i].total_points
            = SlotSum(key[1], key[2], Rec(key).total_player_stats[i].id, "start")
       /\ Rec(key).total_player_stats[i].total_benched_points
            = SlotSum(key[1], key[2], Rec(key).total_player_stats[i].id, "bench")

\* C9: whenever a record is written, after gameweeks 1..g a player ever on
\* the roster has one entry, whose total_points is the sum of the scores of
\* the gameweeks started and whose total_benched_points is the sum of those
\* spent on the bench; a player never rostered has none
C9_CumulativePlayerStats ==
  [][\A key \in Keys : StatsWritten(key) => C9_Record(key)']_vars

\* started gw 1 scoring 5, on the bench in gw 2 scoring 3: entry shows 5 and 3
C9_Witness ==
  \E t \in TeamIdSet, p \in DOMAIN bootstrap_players :
    /\ HasRecord(<<t, 2>>)
    /\ SlotOf(PicksOf(<<t, 1>>), p) = "start" /\ ScoreOf(1, p) = 5
    /\ SlotOf(PicksOf(<<t, 2>>), p) = "bench" /\ ScoreOf(2, p) = 3
    /\ \E i \in 1..Len(Rec(<<t, 2>>).total_player_stats) :
         /\ Rec(<<t, 2>>).total_player_stats[i].id = p
         /\ Rec(<<t, 2>>).total_player_stats[i].total_points = 5
         /\ Rec(<<t, 2>>).total_player_stats[i].total_benched_points = 3

C10_Record(key) ==
  LET picks == PicksOf(key)
      r == Rec(key)
      Score(i) == ScoreOf(key[2], picks[i].element)
      StartScore(i) == IF picks[i].position <= 11 THEN Score(i) ELSE 0
      BenchScore(i) == IF picks[i].position > 11 THEN Score(i) ELSE 0
  IN /\ IsJson(team_data[key])
     /\ r.week_points = SumTo(StartScore, Len(picks))
     /\ r.benched_points = SumTo(BenchScore, Len(picks))
     /\ r.week_points + r.benched_points = SumTo(Score, Len(picks))
     /\ Len(r.player_stats) = Len(picks)
     /\ \A i \in 1..Len(picks) :
          /\ r.player_stats[i].element = picks[i].element
          /\ r.player_stats[i].points = Score(i)
          /\ r.player_stats[i].benched = (picks[i].position > 11)

\* C10: whenever a record is written, week_points is the sum of the scores
\* of the picks in positions <= 11, benched_points that of the picks in
\* positions > 11, a pick is flagged benched exactly when its position is
\* > 11, and every pick counts in exactly one of the two sums
C10_StartersAndBench ==
  [][\A key \in Keys : RecordWritten(key) => C10_Record(key)']_vars

C10_Witness ==
  \E key \in Keys :
    /\ HasRecord(key)
    /\ IsJson(team_data[key])
    /\ Rec(key).week_points # 0
    /\ Rec(key).benched_points # 0
    /\ \E i \in 1..Len(PicksOf(key)) :
         PicksOf(key)[i].position = 12 /\ ScoreOf(key[2], PicksOf(key)[i].element) # 0
    /\ \E i \in 1..Len(PicksOf(key)) :
         PicksOf(key)[i].position = 11 /\ ScoreOf(key[2], PicksOf(key)[i].element) # 0

\* the build of key returned after writing its record in this step
Built(key) ==
  /\ Called
  /\ last'.op = "build"
  /\ last'.result = "ok"
  /\ key = <<last'.team, last'.gw>>

\* a + b + c + d of a 4-tuple
Sum4(f) == f[1] + f[2] + f[3] + f[4]

\* the picks in squad positions <= 11, and those of them the directory
\* lists with category c
Starters(picks) == {i \in 1..Len(picks) : picks[i].position <= 11}

StartersOf(picks, c) ==
  {i \in Starters(picks) :
     /\ picks[i].element \in DOMAIN bootstrap_players
     /\ bootstrap_players[picks[i].element] = c}

\* sum 11, each count within [min, max], one goalkeeper
WithinRules(f, min_formation, max_formation) ==
  /\ Sum4(f) = 11
  /\ \A c \in 1..4 : f[c] >= min_formation[c] /\ f[c] <= max_formation[c]
  /\ f[1] = 1

\* the roster starts 11 players, 1 goalkeeper, 3-5 defenders, 2-5
\* midfielders and 1-3 forwards by the directory's categories
LegalStarters(picks) ==
  WithinRules([c \in 1..4 |-> Cardinality(StartersOf(picks, c))],
              <<1, 3, 2, 1>>, <<1, 5, 5, 3>>)

\* C11 as claimed: in every Gameweek Record team_formation sums to 11, each
\* entry lies within [min_formation, max_formation] and there is exactly one
\* goalkeeper
C11_EveryRecord ==
  \A key \in Keys :
    HasRecord(key) =>
      /\ Rec(key).min_formation = <<1, 3, 2, 1>>
      /\ Rec(key).max_formation = <<1, 5, 5, 3>>
      /\ WithinRules(Rec(key).team_formation, Rec(key).min_formation,
                     Rec(key).max_formation)

\* C11 amended: the record built from a roster whose starters are 11 players
\* within the rules has a team_formation that sums to 11, lies within
\* [min_formation, max_formation] = ([1,3,2,1], [1,5,5,3]) and counts one
\* goalkeeper
C11_LegalRoster ==
  [][\A key \in Keys :
       (Built(key) /\ LegalStarters(PicksOf(key)')) =>
          /\ Rec(key)'.min_formation = <<1, 3, 2, 1>>
          /\ Rec(key)'.max_formation = <<1, 5, 5, 3>>
          /\ WithinRules(Rec(key)'.team_formation, Rec(key)'.min_formation,
                         Rec(key)'.max_formation)]_vars

C11_Witness ==
  /\ last.op = "build"
  /\ last.result = "ok"
  /\ LegalStarters(PicksOf(<<last.team, last.gw>>))
  /\ Rec(<<last.team, last.gw>>).team_formation = <<1, 3, 5, 2>>

\* C12: for any roster, team_formation[c] is the number of picks in squad
\* positions <= 11 whose category is c, and sum(team_formation) is the
\* number of starters of the roster
C12_FaithfulCount ==
  [][\A key \in Keys :
       Built(key) =>
          /\ \A c \in 1..4 :
               Rec(key)'.team_formation[c] = Cardinality(StartersOf(PicksOf(key)', c))
          /\ Sum4(Rec(key)'.team_formation) = Cardinality(Starters(PicksOf(key)'))]_vars

\* the count is faithful for the rosters whose starters all have a category
\* code in 1..4
C12_RecognisedCategories ==
  [][\A key \in Keys :
       (/\ Built(key)
        /\ \A i \in Starters(PicksOf(key)') :
             bootstrap_players[PicksOf(key)'[i].element] \in 1..4) =>
          /\ \A c \in 1..4 :
               Rec(key)'.team_formation[c] = Cardinality(StartersOf(PicksOf(key)', c))
          /\ Sum4(Rec(key)'.team_formation) = Cardinality(Starters(PicksOf(key)'))]_vars

\* the player of pick i of the roster of key has no entry in the score index
\* of the gameweek of key
Absent(key, i) == PicksOf(key)[i].element \notin DOMAIN gw_data_cache[key[2]]

\* the entry of player p in a total_player_stats list, zeros when p has none
EntryOf(stats, p) ==
  IF \E i \in 1..Len(stats) : stats[i].id = p
  THEN LET i == CHOOSE j \in 1..Len(stats) : stats[j].id = p
       IN [total_points |-> stats[i].total_points,
           total_benched_points |-> stats[i].total_benched_points]
  ELSE [total_points |-> 0, total_benched_points |-> 0]

\* the cumulative list the build of key started from
SeedStats(key) ==
  IF key[2] > 1 THEN Rec(<<key[1], key[2] - 1>>).total_player_stats ELSE <<>>

C13_Record(key) ==
  LET picks == PicksOf(key)
      r == Rec(key)
      scores == gw_data_cache[key[2]]
      StartPresent(i) == IF picks[i].position <= 11 /\ ~Absent(key, i)
                         THEN scores[picks[i].element] ELSE 0
      BenchPresent(i) == IF picks[i].position > 11 /\ ~Absent(key, i)
                         THEN scores[picks[i].element] ELSE 0
  IN /\ r.week_points = SumTo(StartPresent, Len(picks))
     /\ r.benched_points = SumTo(BenchPresent, Len(picks))
     /\ \A i \in 1..Len(picks) :
          Absent(key, i) =>
            /\ r.player_stats[i].points = 0
            /\ \E j \in 1..Len(r.total_player_stats) :
                 r.total_player_stats[j].id = picks[i].element
            /\ EntryOf(r.total_player_stats, picks[i].element)
                 = EntryOf(SeedStats(key), picks[i].element)

\* C13: a build whose roster and previous record load never fails on a
\* player without an entry in the score index: the player is given 0
\* points, week_points and benched_points are the sums over the players
\* that have an entry, and the player's cumulative entry keeps the totals
\* it had (0 and 0 when it is new)
C13_AbsentScoresZero ==
  [][\A key \in Keys :
       /\ (/\ Called
           /\ last'.op = "build"
           /\ key = <<last'.team, last'.gw>>
           /\ IsJson(team_data'[key])
           /\ \E i \in 1..Len(PicksOf(key)') : Absent(key, i)'
           /\ key[2] > 1 => HasRecord(<<key[1], key[2] - 1>>))
            => last'.result = "ok"
       /\ Built(key) => C13_Record(key)']_vars

\* a starter and a bench player without an entry, in a gameweek after the
\* first, one of them with points from before
C13_Witness ==
  LET key == <<last.team, last.gw>>
  IN /\ last.op = "build"
     /\ last.result = "ok"
     /\ last.gw > 1
     /\ \E i, j \in 1..Len(PicksOf(key)) :
          /\ Absent(key, i) /\ PicksOf(key)[i].position <= 11
          /\ Absent(key, j) /\ PicksOf(key)[j].position > 11
          /\ EntryOf(Rec(key).total_player_stats, PicksOf(key)[i].element).total_points # 0
     /\ Rec(key).week_points # 0

\* C14: calculate_optimal_points returns the same integer for the same
\* players handed over in another order
C14_OrderIndependent ==
  [][(pc = "solved" /\ pc' = "reordered") => solved' = solved]_vars

\* a lower scorer now stands before a higher scorer of the same category in
\* a full squad
C14_Witness ==
  /\ pc = "reordered"
  /\ Len(pool) = 15
  /\ solved > 0
  /\ pool[1].true_position # 1
  /\ \E i, j \in 1..Len(pool) :
       /\ i < j
       /\ pool[i].true_position = pool[j].true_position
       /\ pool[i].points < pool[j].points

\* two records agree in every field but league_rank and optimal_league_rank
SameButRanks(a, b) ==
  [a EXCEPT !.league_rank = 0, !.optimal_league_rank = 0]
    = [b EXCEPT !.league_rank = 0, !.optimal_league_rank = 0]

\* C15: a ranking pass changes league_rank and optimal_league_rank only:
\* every record that existed before the pass exists after it with every
\* other field as before
C15_OnlyRanksChange ==
  [][(Called /\ last'.op = "rank") =>
       \A key \in Keys :
         HasRecord(key) =>
           (HasRecord(key)' /\ SameButRanks(Rec(key), Rec(key)'))]_vars

\* the records that can still be loaded after the pass differ from before in
\* the two rank fields only
C15_LoadableRecords ==
  [][(Called /\ last'.op = "rank") =>
       \A key \in Keys :
         (HasRecord(key) /\ HasRecord(key)') => SameButRanks(Rec(key), Rec(key)')]_vars

\* the records of a complete run: every one built and ranked
AllFinal ==
  \A key \in Keys :
    /\ HasRecord(key)
    /\ IsJson(team_data[key])
    /\ Rec(key).league_rank \in 1..NumTeams
    /\ Rec(key).optimal_league_rank \in 1..NumTeams

C17_AllOrNone ==
  \A g \in Gws :
    LET ranked == {t \in TeamIdSet :
                     HasRecord(<<t, g>>) /\ Rec(<<t, g>>).league_rank # 0}
    IN ranked = {} \/ ranked = TeamIdSet

\* a build of key that did not write its record ended in this step
FailedBuild(key) ==
  /\ Called
  /\ last'.op = "build"
  /\ last'.result # "ok"
  /\ key = <<last'.team, last'.gw>>

\* C18: a build writes no file but the record of its own (team, gw), and
\* one that fails leaves the records of the team's earlier gameweeks and of
\* every other team exactly as they were
C18_FailedBuildFrame ==
  [][/\ \A key \in Keys :
          FailedBuild(key) =>
             \A other \in Keys :
               (other[1] # key[1] \/ other[2] < key[2]) =>
                  gw_adjusted'[other] = gw_adjusted[other]
     /\ \A key \in Keys :
          (Called /\ last'.op = "build" /\ key # <<last'.team, last'.gw>>) =>
             gw_adjusted'[key] = gw_adjusted[key]]_vars

\* a build for gw 2 fails on a player the directory does not list, the
\* team's gw 1 record being there
C18_Witness ==
  /\ last.op = "build"
  /\ last.result = "raise"
  /\ last.gw > 1
  /\ HasRecord(<<last.team, last.gw - 1>>)
  /\ PicksOf(<<last.team, last.gw>>) = RosterUnlisted

\* C19: after a ranking pass that failed no call is made any more, and no
\* build or ranking pass of a later gameweek has been started
C19_RankFailureStops ==
  [][/\ (last.op = "rank" /\ last.result # "ok") => ~Called
     /\ (last'.op = "rank" /\ last'.result # "ok") =>
          /\ pc' \in {"exit", "crash"}
          /\ \A key \in Keys :
               key[2] > last'.gw =>
                 (team_data'[key] = Unread /\ gw_adjusted'[key] = NoFile)]_vars

C19_Witness ==
  /\ last.op = "rank"
  /\ last.result = "exit"
  /\ last.gw < MaxGw
  /\ pc = "exit"
  /\ \A t \in TeamIdSet : team_data[<<t, last.gw + 1>>] = Unread

\* pick i of the roster has a category code that is not one of 1..4
Unrecognised(picks, i) ==
  /\ picks[i].element \in DOMAIN bootstrap_players
  /\ bootstrap_players[picks[i].element] \notin 1..4

\* C20: a build whose roster holds a player with a category code outside
\* 1..4 fails fatally and writes no record
C20_MalformedCategoryFatal ==
  [][\A key \in Keys :
       (/\ Called
        /\ last'.op = "build"
        /\ key = <<last'.team, last'.gw>>
        /\ IsJson(team_data'[key])
        /\ \E i \in 1..Len(PicksOf(key)') : Unrecognised(PicksOf(key)', i))
         => (last'.result = "raise" /\ gw_adjusted' = gw_adjusted)]_vars

\* the build does fail fatally when the code is outside -3..4
C20_OutOfRangeFatal ==
  [][\A key \in Keys :
       (/\ Called
        /\ last'.op = "build"
        /\ key = <<last'.team, last'.gw>>
        /\ IsJson(team_data'[key])
        /\ \E i \in 1..Len(PicksOf(key)') :
             /\ Unrecognised(PicksOf(key)', i)
             /\ ListIndex(bootstrap_players[PicksOf(key)'[i].element] - 1, 4) = 0)
         => (last'.result = "raise" /\ gw_adjusted' = gw_adjusted)]_vars

\* the players of category c in a pool, by their place in the list
BucketOf(player_stats, c) ==
  {i \in 1..Len(player_stats) : player_stats[i].true_position = c}

\* the sum of the scores of the best Min(k, size) players of category c:
\* all of them when the bucket holds fewer than k
TopSum(player_stats, c, k) ==
  LET bucket == BucketOf(player_stats, c)
      m == Min(k, Cardinality(bucket))
      best == CHOOSE T \in SUBSET bucket :
                /\ Cardinality(T) = m
                /\ \A i \in T, j \in bucket \ T :
                     player_stats[i].points >= player_stats[j].points
      Taken(i) == IF i \in best THEN player_stats[i].points ELSE 0
  IN SumTo(Taken, Len(player_stats))

\* the largest, over the formations, of the sums of the top scores
TakeAllMaximum(player_stats) ==
  LET sums == {TopSum(player_stats, 1, formations[i][1])
               + TopSum(player_stats, 2, formations[i][2])
               + TopSum(player_stats, 3, formations[i][3])
               + TopSum(player_stats, 4, formations[i][4]) : i \in 1..Len(formations)}
  IN CHOOSE m \in sums : \A x \in sums : m >= x

\* some formation asks a category for more players than the pool has
HasShortBucket(player_stats) ==
  \E i \in 1..Len(formations), c \in 1..4 :
    Cardinality(BucketOf(player_stats, c)) < formations[i][c]

\* C22: when a bucket holds fewer players than a formation asks for, all
\* of them are taken and the result is the maximum over the 8 formations of
\* the sums so obtained
C22_ShortBucketMaximum ==
  (pc = "solved" /\ HasShortBucket(pool)) => solved = TakeAllMaximum(pool)

\* with a short bucket the result is that maximum whenever it is not negative
C22_ShortBucketNonNegative ==
  (pc = "solved" /\ HasShortBucket(pool) /\ TakeAllMaximum(pool) >= 0)
     => solved = TakeAllMaximum(pool)

\* the tuples (1, DEF, MID, FWD) with DEF + MID + FWD = 10 between min and max
FormationsWithin(min_formation, max_formation) ==
  {f \in {<<1, d, 10 - d - w, w>> : d \in 0..10, w \in 0..10} :
     \A c \in 1..4 : f[c] >= min_formation[c] /\ f[c] <= max_formation[c]}

\* C23: the solver's formations are exactly 3-5-2, 3-4-3, 4-5-1, 4-4-2,
\* 4-3-3, 5-4-1, 5-3-2, 5-2-3 with one goalkeeper, and exactly the tuples
\* within the min_formation and max_formation of every record
C23_FormationSet ==
  \A key \in Keys :
    HasRecord(key) =>
      /\ {formations[i] : i \in 1..Len(formations)}
           = {<<1, 3, 5, 2>>, <<1, 3, 4, 3>>, <<1, 4, 5, 1>>, <<1, 4, 4, 2>>,
              <<1, 4, 3, 3>>, <<1, 5, 4, 1>>, <<1, 5, 3, 2>>, <<1, 5, 2, 3>>}
      /\ {formations[i] : i \in 1..Len(formations)}
           = FormationsWithin(Rec(key).min_formation, Rec(key).max_formation)
      /\ Len(formations) = 8

C23_Witness ==
  \E key \in Keys :
    /\ HasRecord(key)
    /\ Rec(key).min_formation = <<1, 3, 2, 1>>
    /\ Rec(key).max_formation = <<1, 5, 5, 3>>
    /\ Rec(key).optimal_points > 0

\* the place of player p in the cumulative list before the sort: its place in
\* the list the build started from, or behind that list in roster order
PlaceBeforeSort(key, p) ==
  LET seed == SeedStats(key)
      picks == PicksOf(key)
  IN IF \E i \in 1..Len(seed) : seed[i].id = p
     THEN CHOOSE i \in 1..Len(seed) : seed[i].id = p
     ELSE Len(seed) + (CHOOSE i \in 1..Len(picks) : picks[i].element = p)

C24_Record(key) ==
  LET stats == Rec(key).total_player_stats
  IN \A i \in 1..(Len(stats) - 1) :
       /\ stats[i].total_points >= stats[i + 1].total_points
       /\ stats[i].total_points = stats[i + 1].total_points =>
            PlaceBeforeSort(key, stats[i].id) < PlaceBeforeSort(key, stats[i + 1].id)

\* C24: the total_player_stats of a record the builder writes is ordered by
\* non-increasing total_points, and entries with equal total_points stand in
\* the order they had before the sort: the previous record's order first,
\* then the players new this gameweek in roster order
C24_StableDescending ==
  [][\A key \in Keys : Built(key) => C24_Record(key)']_vars

\* a second gameweek's record in which two players carried over and a new
\* one are tied
C24_Witness ==
  LET key == <<last.team, last.gw>>
      stats == Rec(key).total_player_stats
  IN /\ last.op = "build"
     /\ last.result = "ok"
     /\ last.gw > 1
     /\ \E i, j \in 1..Len(stats) :
          /\ i < j
          /\ stats[i].total_points = stats[j].total_points
          /\ PlaceBeforeSort(key, stats[j].id) > Len(SeedStats(key))
     /\ \E i, j \in 1..Len(stats) :
          /\ i < j
          /\ stats[i].total_points = stats[j].total_points
          /\ PlaceBeforeSort(key, stats[j].id) <= Len(SeedStats(key))
     /\ \E i, j \in 1..Len(stats) : stats[i].total_points > stats[j].total_points

\* teams a and b have the same total_points in gameweek g
TiedTotals(g, a, b) == Rec(<<a, g>>).total_points = Rec(<<b, g>>).total_points

TiedOptimalTotals(g, a, b) ==
  Rec(<<a, g>>).total_optimal_points = Rec(<<b, g>>).total_optimal_points

\* C26: when teams have equal totals the ranks of a ranked gameweek are
\* still a permutation of 1..N, and of two tied teams the one earlier in
\* team_ids has the smaller rank; the same for the optimal ranks
C26_TiesByTeamOrder ==
  RankedOk =>
    LET g == last.gw
    IN /\ \A i, j \in 1..NumTeams :
            (i < j /\ TiedTotals(g, team_ids[i], team_ids[j])) =>
              Rec(<<team_ids[i], g>>).league_rank < Rec(<<team_ids[j], g>>).league_rank
       /\ \A i, j \in 1..NumTeams :
            (i < j /\ TiedOptimalTotals(g, team_ids[i], team_ids[j])) =>
              Rec(<<team_ids[i], g>>).optimal_league_rank
                < Rec(<<team_ids[j], g>>).optimal_league_rank
       /\ {Rec(<<t, g>>).league_rank : t \in TeamIdSet} = 1..NumTeams
       /\ {Rec(<<t, g>>).optimal_league_rank : t \in TeamIdSet} = 1..NumTeams

\* a ranked gameweek in which two teams are tied on total_points and the
\* one with the larger id, earlier in team_ids, has the smaller rank
C26_Witness ==
  /\ RankedOk
  /\ \E i, j \in 1..NumTeams :
       /\ i < j
       /\ TiedTotals(last.gw, team_ids[i], team_ids[j])
       /\ team_ids[i] > team_ids[j]
       /\ Rec(<<team_ids[i], last.gw>>).league_rank
            < Rec(<<team_ids[j], last.gw>>).league_rank

C28_Record(key) ==
  LET stats == Rec(key).total_player_stats
      Total(i) == stats[i].total_points
      Benched(i) == stats[i].total_benched_points
      WeekBenched(g) == Rec(<<key[1], g>>).benched_points
  IN /\ SumTo(Total, Len(stats)) = Rec(key).total_points
     /\ (\A g \in 1..key[2] : HasRecord(<<key[1], g>>))
          => SumTo(Benched, Len(stats)) = SumTo(WeekBenched, key[2])

\* C28: in a record the builder writes, the total_points of the
\* total_player_stats entries add up to the record's total_points, and
\* their total_benched_points add up to the benched_points of the team's
\* records of gameweeks 1..gw
C28_StatsAddUp ==
  [][\A key \in Keys : Built(key) => C28_Record(key)']_vars

\* a second gameweek's record with starters, bench players and a player
\* carried over from the first gameweek
C28_Witness ==
  LET key == <<last.team, last.gw>>
  IN /\ last.op = "build"
     /\ last.result = "ok"
     /\ last.gw > 1
     /\ Rec(key).total_points # Rec(key).week_points
     /\ Rec(key).benched_points # 0
     /\ Rec(<<last.team, last.gw - 1>>).benched_points # 0
     /\ Len(Rec(key).total_player_stats) > Len(PicksOf(key))

C29_RecordsNonNegative ==
  \A key \in Keys :
    HasRecord(key) =>
      /\ Rec(key).optimal_points >= 0
      /\ (key[2] > 1 /\ HasRecord(<<key[1], key[2] - 1>>)) =>
           Rec(key).total_optimal_points
             >= Rec(<<key[1], key[2] - 1>>).total_optimal_points

\* a roster file was found missing
RosterMissing == \E key \in Keys : team_data[key] = NoFile

\* a write of a record failed, in a build or in a ranking pass
WriteFailed ==
  \/ \E key \in Keys : team_data[key] = Discarded
  \/ last.op = "rank" /\ last.result \in {"exit", "raise"}

\* the run is over, every (team, gw) was built and every gw ranked, in
\* MaxGw * (NumTeams + 1) calls
Finished ==
  /\ pc = "done"
  /\ AllFinal
  /\ ncalls = MaxGw * (NumTeams + 1)
  /\ last.op = "rank"
  /\ last.gw = get_current_gw

\* the run has ended: by falling out of the loops, by exit(1) or by an
\* uncaught exception
Terminated == pc \in {"done", "exit", "crash"}

\* how far the loops of main have come: the calls made when they run to the end
Position ==
  IF Terminated THEN MaxGw * (NumTeams + 1)
  ELSE (gw - 1) * (NumTeams + 1) + (IF pc = "build" THEN ti - 1 ELSE NumTeams)

C21_EventuallyFinished == <>(RosterMissing \/ WriteFailed \/ Finished)

\* the files after the builds of the gameweek run one after the other in
\* team_ids order, as main runs them, on the rosters the builds loaded
RECURSIVE SerialBuilds(_, _)
SerialBuilds(files, i) ==
  IF i > NumTeams THEN files
  ELSE LET key == <<team_ids[i], gw>>
           prev == IF gw > 1 THEN files[<<team_ids[i], gw - 1>>] ELSE NoFile
       IN SerialBuilds(
            [files EXCEPT ![key] =
               IF IsJson(team_data[key])
               THEN File(GwStatsOutput(key[1], gw, PicksOf(key), PrevTotals(gw, prev),
                                       gw_data_cache[gw]))
               ELSE gw_adjusted[key]],
            i + 1)

\* the step touches the files and the reads of team t only
StepOf(t) ==
  /\ \A u \in TeamIdSet \ {t} : pending'[u] = pending[u]
  /\ \A key \in Keys :
       key[1] # t => (gw_adjusted'[key] = gw_adjusted[key]
                      /\ team_data'[key] = team_data[key])

\* C25: in the build phase of a gameweek a step of the build of a team
\* changes no record, roster or read of another team, and whatever the order
\* and interleaving of the teams' builds the records at the end of the phase
\* are those of the builds run one after the other in team_ids order
C25_Independent ==
  /\ [](pc = "rank" =>
         gw_adjusted = SerialBuilds([key \in Keys |-> IF key[2] = gw THEN NoFile
                                                     ELSE gw_adjusted[key]], 1))
  /\ [][\E t \in TeamIdSet : StepOf(t)]_vars

\* the end of the phase of a later gameweek in which the first team of
\* team_ids wrote its record last, after the others had written theirs
C25_Witness ==
  /\ pc = "rank"
  /\ gw > 1
  /\ \A t \in TeamIdSet : HasRecord(<<t, gw>>)
  /\ last.team = team_ids[1]
  /\ \E t \in TeamIdSet : Rec(<<t, gw>>).total_points # Rec(<<last.team, gw>>).total_points

\* the gameweeks of a list
Sent(list) == {list[i] : i \in 1..Len(list)}

\* the lists of the stored sent_updates.json, empty when there is no file
StoredLists == IF IsJson(sent_file) THEN sent_file.data ELSE EmptyLists

\* C27: when a run of send_updates aborts, every gameweek it has delivered
\* is in the stored sent_updates already, and no gameweek is delivered to a
\* webhook a second time
C27_DeliveryRecorded ==
  /\ pc = "aborted" =>
       \A key \in config : Sent(sent_updates[key]) \subseteq Sent(StoredLists[key])
  /\ \A key \in config, g \in Gws : delivered[key][g] <= 1

\* the stored lists are those in memory whenever a run ends normally
C27_SavedAtEnd ==
  pc = "ended" => (IsJson(sent_file) /\ sent_file.data = sent_updates)

StrictlyIncreasing(list) == \A i \in 1..(Len(list) - 1) : list[i] < list[i + 1]

\* the largest gameweek of a list, 0 for the empty list
Largest(list) ==
  IF list = <<>> THEN 0 ELSE CHOOSE m \in Sent(list) : \A g \in Sent(list) : m >= g

\* the gameweeks from..to in increasing order
Range(from, to) == [i \in 1..(IF to >= from THEN to - from + 1 ELSE 0) |-> from + i - 1]

====
